---- MODULE Spec2Model ----
(***************************************************************************)
(* A model of pyver (src/src/pyver/lib.py): the Version and Require value  *)
(* classes and the PyVer manager that records requirements, links one      *)
(* version of a module from an ordered list of repositories into a private *)
(* staging directory, and removes that directory at interpreter exit.      *)
(*                                                                         *)
(* Python strings are sequences of one-character strings, so that slicing, *)
(* splitting, int() and startswith() are computed as the code computes     *)
(* them.  A Python value that may be a str or a tuple is a record with the *)
(* fields "type" and "v".                                                  *)
(***************************************************************************)
EXTENDS Integers, Sequences, FiniteSets, TLC

\* ------------------------------------------------------------------------
\* Bounds of the model
\* ------------------------------------------------------------------------

\* the largest number of Require objects recorded for one module
MaxReqs == 2

\* the largest number of repositories on the search path
MaxRepos == 3

\* the largest one-digit version component of the requirement-semantics inputs
MaxVer == 2

\* the two-digit version component of the requirement-semantics inputs
BigVer == 10

\* the largest length of a requirement string of the parsing inputs
MaxStr == 3

\* the largest number of dot-separated fields of a version string of the
\* parsing inputs
MaxParts == 4

\* ------------------------------------------------------------------------
\* Python strings
\* ------------------------------------------------------------------------

\* body(value): the value is computed once and named in the body
With(value, body(_)) == body(value)

Str(s) == [type |-> "str", v |-> s]

Tuple(t) == [type |-> "tuple", v |-> t]

\* s[a:b] for 0 <= a, on a sequence (0-based, end exclusive, clipped)
Slice(s, a, b) ==
    LET hi == IF b < Len(s) THEN b ELSE Len(s)
    IN  IF a >= hi THEN <<>> ELSE SubSeq(s, a + 1, hi)

\* s[a:]
SliceFrom(s, a) == Slice(s, a, Len(s))

\* s.startswith(prefix)
startswith(s, prefix) ==
    /\ Len(prefix) <= Len(s)
    /\ SubSeq(s, 1, Len(prefix)) = prefix

\* the index of the first occurrence of the character c in s, 0 when absent
RECURSIVE FindFrom(_, _, _)
FindFrom(s, c, i) ==
    IF i > Len(s) THEN 0
    ELSE IF s[i] = c THEN i
    ELSE FindFrom(s, c, i + 1)

\* s.split(c, maxsplit): at most maxsplit splits, the rest kept whole
RECURSIVE split(_, _, _)
split(s, c, maxsplit) ==
    With(FindFrom(s, c, 1), LAMBDA i :
        IF maxsplit = 0 \/ i = 0 THEN <<s>>
        ELSE <<SubSeq(s, 1, i - 1)>> \o split(SubSeq(s, i + 1, Len(s)), c, maxsplit - 1))

\* s.split(c) without a limit
splitAll(s, c) == split(s, c, Len(s))

\* filter(len, parts): the non-empty parts, in order
filter_len(parts) == SelectSeq(parts, LAMBDA p : Len(p) > 0)

Whitespace == {" "}

DigitChars == <<"0", "1", "2", "3", "4", "5", "6", "7", "8", "9">>

IsDigit(c) == \E d \in 1..10 : DigitChars[d] = c

DigitVal(c) == (CHOOSE d \in 1..10 : DigitChars[d] = c) - 1

RECURSIVE lstrip(_)
lstrip(s) == IF s /= <<>> /\ Head(s) \in Whitespace THEN lstrip(Tail(s)) ELSE s

RECURSIVE rstrip(_)
rstrip(s) ==
    IF s /= <<>> /\ s[Len(s)] \in Whitespace THEN rstrip(SubSeq(s, 1, Len(s) - 1)) ELSE s

RECURSIVE DigitsVal(_, _)
DigitsVal(s, acc) ==
    IF s = <<>> THEN acc ELSE DigitsVal(Tail(s), 10 * acc + DigitVal(Head(s)))

\* int(num) of a str in Python 2: surrounding whitespace is dropped, one sign
\* is allowed, whitespace may follow the sign, and at least one decimal digit
\* must follow; anything else is a ValueError
int(num) ==
    With(rstrip(lstrip(num)), LAMBDA t :
    With(IF t /= <<>> /\ Head(t) \in {"-", "+"} THEN lstrip(Tail(t)) ELSE t, LAMBDA body :
        IF body /= <<>> /\ \A i \in 1..Len(body) : IsDigit(body[i])
        THEN [exc |-> "none",
              val |-> (IF Head(t) = "-" THEN 0 - 1 ELSE 1) * DigitsVal(body, 0)]
        ELSE [exc |-> "ValueError"]))

\* os.path.join(a, b) on POSIX
path_join2(a, b) ==
    IF b /= <<>> /\ Head(b) = "/" THEN b
    ELSE IF a = <<>> \/ a[Len(a)] = "/" THEN a \o b
    ELSE a \o <<"/">> \o b

\* os.path.join(a, b, c)
path_join(a, b, c) == path_join2(path_join2(a, b), c)

\* ------------------------------------------------------------------------
\* class Version
\* ------------------------------------------------------------------------

\* the decimal digits of a number below 100
Decimal(n) ==
    IF n < 10 THEN <<DigitChars[n + 1]>>
    ELSE <<DigitChars[(n \div 10) + 1], DigitChars[(n % 10) + 1]>>

\* the dotted string of a tuple of components
VerStr(t) == Decimal(t[1]) \o <<".">> \o Decimal(t[2]) \o <<".">> \o Decimal(t[3])

\* a variant of Version_fill that leaves the default 0 for a part that is
\* not an integer, instead of raising
RECURSIVE Version_fill_skip(_, _, _)
Version_fill_skip(parts, i, version) ==
    IF i > Len(parts) THEN [exc |-> "none", ver |-> version]
    ELSE With(int(parts[i]), LAMBDA n :
             Version_fill_skip(parts, i + 1,
                 IF n.exc /= "none" THEN version ELSE [version EXCEPT ![i] = n.val]))

\* the loop of Version.__init__ over the parts from index i on: the tuple
\* with every part converted, or the exception of the first bad part
RECURSIVE Version_fill(_, _, _)
Version_fill(parts, i, version) ==
    IF i > Len(parts) THEN [exc |-> "none", ver |-> version]
    ELSE With(int(parts[i]), LAMBDA n :
             IF n.exc /= "none" THEN [exc |-> "InvalidVersionNumber"]
             ELSE Version_fill(parts, i + 1, [version EXCEPT ![i] = n.val]))

\* a variant of Version that splits at every dot and converts the first
\* three fields only
Version_truncating(ver_str) ==
    IF ver_str.type /= "str" THEN [exc |-> "AttributeError"]
    ELSE With(Version_fill(Slice(splitAll(ver_str.v, "."), 0, 3), 1, <<0, 0, 0>>),
              LAMBDA r :
             IF r.exc /= "none" THEN r
             ELSE [exc |-> "none", str |-> ver_str.v, tuple |-> r.ver])

\* Version(ver_str): the object's fields, or the exception raised.  A tuple
\* has no split method.
Version(ver_str) ==
    IF ver_str.type /= "str" THEN [exc |-> "AttributeError"]
    ELSE With(Version_fill(split(ver_str.v, ".", 2), 1, <<0, 0, 0>>), LAMBDA r :
             IF r.exc /= "none" THEN r
             ELSE [exc |-> "none", str |-> ver_str.v, tuple |-> r.ver])

\* Python's ordering of two tuples of integers of the same length: decided
\* by the first position where they differ
RECURSIVE tuple_lt(_, _)
tuple_lt(a, b) ==
    IF a = <<>> \/ b = <<>> THEN a = <<>> /\ b /= <<>>
    ELSE IF Head(a) /= Head(b) THEN Head(a) < Head(b)
    ELSE tuple_lt(Tail(a), Tail(b))

tuple_le(a, b) == a = b \/ tuple_lt(a, b)

tuple_gt(a, b) == tuple_lt(b, a)

tuple_ge(a, b) == tuple_le(b, a)

\* a variant of Version_ne that looks at the major component only
Version_ne_major(a, b) == a.tuple[1] /= b.tuple[1]

\* Version defines no __eq__, __ne__ or __cmp__: != on two Version objects is
\* the default comparison of objects, which tells them apart by identity
Version_ne(a, b) == a.id /= b.id

\* ------------------------------------------------------------------------
\* class Require
\* ------------------------------------------------------------------------

TwoCharOps == {<<">", "=">>, <<"<", "=">>, <<"=", "=">>, <<"!", "=">>}

OneCharOps == {<<">">>, <<"<">>}

\* Require.__get_op(req): the operator string, or the exception raised.
\* req[0:2] of a tuple is a tuple, which equals no operator string; op[0]
\* of an empty slice is an IndexError; op[0] of a str is its first
\* character and op[0] of a tuple is its first element.
Require__get_op(req) ==
    With(Slice(req.v, 0, 2), LAMBDA op :
        IF req.type = "str" /\ op \in TwoCharOps THEN [exc |-> "none", op |-> op]
        ELSE IF op = <<>> THEN [exc |-> "IndexError"]
        ELSE IF req.type = "str" /\ <<op[1]>> \in OneCharOps
             THEN [exc |-> "none", op |-> <<op[1]>>]
        ELSE IF req.type = "tuple" /\ op[1] \in OneCharOps
             THEN [exc |-> "none", op |-> op[1]]
        ELSE [exc |-> "InvalidRequireString"])

\* Require(reqstr, caller): the object's fields, or the exception raised
Require(reqstr, caller) ==
    With(Require__get_op(reqstr), LAMBDA o :
        IF o.exc /= "none" THEN [exc |-> o.exc]
        ELSE With(Version([type |-> reqstr.type,
                           v |-> SliceFrom(reqstr.v, Len(o.op))]), LAMBDA ver :
                 IF ver.exc /= "none" THEN [exc |-> ver.exc]
                 ELSE [exc |-> "none", reqstr |-> reqstr.v, op |-> o.op,
                       version |-> ver, caller |-> caller]))

\* a variant of is_compatible with the candidate as the left operand of the
\* four orderings
is_compatible_swapped(req, otherVersion) ==
    LET mine  == req.version.tuple
        other == otherVersion.tuple
    IN  CASE req.op = <<"=", "=">> -> mine = other
          [] req.op = <<"!", "=">> -> mine /= other
          [] req.op = <<"<", "=">> -> tuple_ge(other, mine)
          [] req.op = <<">", "=">> -> tuple_le(other, mine)
          [] req.op = <<"<">>      -> tuple_gt(other, mine)
          [] req.op = <<">">>      -> tuple_lt(other, mine)

\* Require.is_compatible(otherVersion): the bound is the left operand
is_compatible(req, otherVersion) ==
    LET mine  == req.version.tuple
        other == otherVersion.tuple
    IN  CASE req.op = <<"=", "=">> -> mine = other
          [] req.op = <<"!", "=">> -> mine /= other
          [] req.op = <<"<", "=">> -> tuple_ge(mine, other)
          [] req.op = <<">", "=">> -> tuple_le(mine, other)
          [] req.op = <<"<">>      -> tuple_gt(mine, other)
          [] req.op = <<">">>      -> tuple_lt(mine, other)

\* ------------------------------------------------------------------------
\* The environment: module names, strings passed by callers, directories
\* ------------------------------------------------------------------------

Modules == {<<"x">>, <<"y">>}

\* version strings passed to use
UseVersions ==
    { <<"1", ".", "5", ".", "0">>,
      <<"1", ".", "6", ".", "0">>,
      <<"1", ".", "5">>,
      <<"1", ".", "x", ".", "0">> }

ReqGe == <<">", "=", "1", ".", "6", ".", "0">>

ReqLt == <<"<", "1", ".", "6", ".", "0">>

ReqNoOp == <<"1", ".", "5", ".", "0">>

ReqBadVer == <<">", "=", "1", ".", "x">>

\* argument lists passed to PyVer.require
RequireArgs ==
    { <<>>, <<ReqGe>>, <<ReqLt>>, <<ReqGe, ReqLt>>, <<ReqLt, ReqBadVer>>,
      <<ReqNoOp>>, <<<<>>>> }

\* argument lists passed to the public function require
PublicRequireArgs == { <<>>, <<ReqGe>>, <<ReqGe, ReqLt>>, <<<<">">>>> }

\* names of the modules that call PyVer.require directly
Callers == {"app"}

R1 == <<"/", "r", "1">>

R2 == <<"/", "r", "2">>

Custom == <<"/", "c">>

\* values of the environment variable PYVERPATH
PyverPaths == { R1 \o <<":", ":">> \o R2 }

\* paths passed to overlay
OverlayPaths == { Custom, <<"c">>, <<>> }

\* the directory made by tempfile.mkdtemp
LocalDir == <<"/", "t", "/", "p">>

\* the module/version directories present in the repositories
RepoDirs ==
    { path_join(R1, <<"x">>, <<"1", ".", "5", ".", "0">>),
      path_join(R1, <<"x">>, <<"1", ".", "6", ".", "0">>),
      path_join(R2, <<"x">>, <<"1", ".", "5", ".", "0">>),
      path_join(R2, <<"x">>, <<"1", ".", "5">>),
      path_join(R2, <<"y">>, <<"1", ".", "5", ".", "0">>),
      path_join(Custom, <<"x">>, <<"1", ".", "5", ".", "0">>),
      path_join(Custom, <<"y">>, <<"1", ".", "6", ".", "0">>) }

\* ------------------------------------------------------------------------
\* class PyVer: the state
\* ------------------------------------------------------------------------

VARIABLES
    PyVer__use,       \* self.__use: module -> the Version object linked
    PyVer__require,   \* self.__require: module -> list of Require objects
    PyVer__repos,     \* self.__repos: the repositories, in search order
    fs,               \* the file system: directories and symbolic links
    running,          \* FALSE once the atexit hook has run
    last,             \* the last call made: its arguments and its outcome
    probe,            \* a Require and a candidate Version under evaluation
    threads           \* thread -> the call of use it makes and its position

vars ==
    <<PyVer__use, PyVer__require, PyVer__repos, fs, running, last, probe, threads>>

\* a dict with no key
EmptyDict == [k \in {} |-> 0]

\* d[k] = v on a dict
DictSet(d, k, v) == [j \in DOMAIN d \cup {k} |-> IF j = k THEN v ELSE d[j]]

\* os.path.exists(path): symbolic links are followed
path_exists(path) ==
    \/ path \in fs.dirs
    \/ path \in DOMAIN fs.links /\ fs.links[path] \in fs.dirs

\* PyVer.__init__ with the environment variable PYVERPATH = env
PyVer__init__(env) ==
    /\ PyVer__use = EmptyDict
    /\ PyVer__require = EmptyDict
    /\ PyVer__repos = filter_len(splitAll(env, ":"))
    /\ fs = [dirs |-> RepoDirs \cup {LocalDir}, links |-> EmptyDict]

NoCall == [op |-> "init", module |-> <<>>, arg |-> <<>>, exc |-> "none"]

NoProbe == [state |-> "off"]

\* no thread but the main one
NoThreads == <<>>

Init ==
    /\ \E env \in PyverPaths : PyVer__init__(env)
    /\ running = TRUE
    /\ last = NoCall
    /\ probe = NoProbe
    /\ threads = NoThreads

\* ------------------------------------------------------------------------
\* class PyVer: the operations
\* ------------------------------------------------------------------------

\* a constructed object: its fields and its identity
New(fields, id) ==
    [f \in DOMAIN fields \cup {"id"} |-> IF f = "id" THEN id ELSE fields[f]]

\* the identity of a newly constructed Version: one that no Version object
\* held by self.__use has
FreshId ==
    CHOOSE i \in 1..(Cardinality(DOMAIN PyVer__use) + 1) :
        /\ \A m \in DOMAIN PyVer__use : PyVer__use[m].id /= i
        /\ \A j \in 1..(i - 1) : \E m \in DOMAIN PyVer__use : PyVer__use[m].id = j

\* a variant of check_requires in which every requirement must be compatible
check_requires_all(module, ver) ==
    IF module \notin DOMAIN PyVer__require THEN "none"
    ELSE IF /\ PyVer__require[module] /= <<>>
            /\ \A i \in 1..Len(PyVer__require[module]) :
                   is_compatible(PyVer__require[module][i], ver)
         THEN "none"
         ELSE "VesionMismatchException"

\* PyVer.check_requires(module, ver): the exception raised, "none" on return.
\* The KeyError of a module with no list is caught; a list in which no
\* requirement is compatible, the empty list included, raises.
check_requires(module, ver) ==
    IF module \notin DOMAIN PyVer__require THEN "none"
    ELSE IF \E i \in 1..Len(PyVer__require[module]) :
                is_compatible(PyVer__require[module][i], ver)
         THEN "none"
         ELSE "VesionMismatchException"

\* a variant of find_repos that keeps searching after a match: the index of
\* the last repository from i on that holds module/str(version)
find_repos_last(module, version, i) ==
    LET found == {j \in i..Len(PyVer__repos) :
                     path_exists(path_join(PyVer__repos[j], module, version.str))}
    IN  IF found = {} THEN 0
        ELSE CHOOSE j \in found : \A k \in found : k <= j

\* a variant of find_repos that looks for the directory named by the parsed
\* tuple, major.minor.patch, instead of by the string as it was given
RECURSIVE find_repos_normalized(_, _, _)
find_repos_normalized(module, version, i) ==
    IF i > Len(PyVer__repos) THEN 0
    ELSE IF path_exists(path_join(PyVer__repos[i], module, VerStr(version.tuple)))
    THEN i
    ELSE find_repos_normalized(module, version, i + 1)

\* the loop of PyVer.__link_module from repository i on: the index of the
\* first repository that holds module/str(version), 0 when there is none
RECURSIVE find_repos(_, _, _)
find_repos(module, version, i) ==
    IF i > Len(PyVer__repos) THEN 0
    ELSE IF path_exists(path_join(PyVer__repos[i], module, version.str)) THEN i
    ELSE find_repos(module, version, i + 1)

\* os.symlink(src, dst): the file system afterwards, or the exception raised
os_symlink(src, dst) ==
    IF \/ dst \in DOMAIN fs.links
       \/ dst \in fs.dirs
       \/ LocalDir \notin fs.dirs
    THEN [exc |-> "OSError"]
    ELSE [exc |-> "none", fs |-> [fs EXCEPT !.links = DictSet(@, dst, src)]]

\* a variant of __link_module that records the version before it searches
PyVer__link_module_early(module, version) ==
    With(find_repos(module, version, 1), LAMBDA i :
        IF i = 0
        THEN [exc |-> "VersionNotFoundException",
              use |-> DictSet(PyVer__use, module, version), fs |-> fs]
        ELSE With(os_symlink(path_join(PyVer__repos[i], module, version.str),
                             path_join2(LocalDir, module)), LAMBDA lnk :
                 IF lnk.exc /= "none"
                 THEN [exc |-> lnk.exc,
                       use |-> DictSet(PyVer__use, module, version), fs |-> fs]
                 ELSE [exc |-> "none",
                       use |-> DictSet(PyVer__use, module, version),
                       fs |-> lnk.fs]))

\* a variant of __link_module that returns without recording the version
PyVer__link_module_unrecorded(module, version) ==
    With(find_repos(module, version, 1), LAMBDA i :
        IF i = 0
        THEN [exc |-> "VersionNotFoundException", use |-> PyVer__use, fs |-> fs]
        ELSE With(os_symlink(path_join(PyVer__repos[i], module, version.str),
                             path_join2(LocalDir, module)), LAMBDA lnk :
                 IF lnk.exc /= "none"
                 THEN [exc |-> lnk.exc, use |-> PyVer__use, fs |-> fs]
                 ELSE [exc |-> "none", use |-> PyVer__use, fs |-> lnk.fs]))

\* PyVer.__link_module(module, version): the exception raised and the state
\* afterwards
PyVer__link_module(module, version) ==
    With(find_repos(module, version, 1), LAMBDA i :
        IF i = 0
        THEN [exc |-> "VersionNotFoundException", use |-> PyVer__use, fs |-> fs]
        ELSE With(os_symlink(path_join(PyVer__repos[i], module, version.str),
                             path_join2(LocalDir, module)), LAMBDA lnk :
                 IF lnk.exc /= "none"
                 THEN [exc |-> lnk.exc, use |-> PyVer__use, fs |-> fs]
                 ELSE [exc |-> "none",
                       use |-> DictSet(PyVer__use, module, version),
                       fs |-> lnk.fs]))

\* the outcome of a call of use that ends at exc and has changed nothing
Raised(exc) == [exc |-> exc, use |-> PyVer__use, fs |-> fs]

\* a variant of use that replaces the recorded version when another one is
\* requested, instead of raising
PyVer_use_warn(module, version) ==
    With(Version(Str(version)), LAMBDA v :
        IF v.exc /= "none" THEN Raised(v.exc)
        ELSE With(New(v, FreshId), LAMBDA ver :
             With(check_requires(module, ver), LAMBDA chk :
                 IF chk /= "none" THEN Raised(chk)
                 ELSE IF module \in DOMAIN PyVer__use
                 THEN [exc |-> "none",
                       use |-> DictSet(PyVer__use, module,
                                       New(v, PyVer__use[module].id)),
                       fs |-> fs]
                 ELSE PyVer__link_module(module, ver))))

\* PyVer.use(module, version): the exception raised and the state afterwards
PyVer_use(module, version) ==
    With(Version(Str(version)), LAMBDA v :
        IF v.exc /= "none" THEN Raised(v.exc)
        ELSE With(New(v, FreshId), LAMBDA ver :
             With(check_requires(module, ver), LAMBDA chk :
                 IF chk /= "none" THEN Raised(chk)
                 ELSE IF module \in DOMAIN PyVer__use
                 THEN IF Version_ne(PyVer__use[module], ver)
                      THEN Raised("VesionMismatchException")
                      ELSE Raised("none")
                 ELSE PyVer__link_module(module, ver))))

\* use(module, version), the public function
use(module, version) ==
    /\ running
    /\ \E r \in {PyVer_use(module, version)} :
           /\ PyVer__use' = r.use
           /\ fs' = r.fs
           /\ last' = [op |-> "use", module |-> module, arg |-> version,
                       exc |-> r.exc]
    /\ UNCHANGED <<PyVer__require, PyVer__repos, running, probe, threads>>

\* list.extend(Require(r, caller) for r in reqs) from element i on: every
\* object made before an exception stays in the list
RECURSIVE list_extend(_, _, _, _)
list_extend(lst, reqs, caller, i) ==
    IF i > Len(reqs) THEN [exc |-> "none", lst |-> lst]
    ELSE With(Require(reqs[i], caller), LAMBDA r :
             IF r.exc /= "none" THEN [exc |-> r.exc, lst |-> lst]
             ELSE list_extend(Append(lst, r), reqs, caller, i + 1))

\* a variant of PyVer.require that checks the new list against the version
\* already loaded and raises, keeping the old list, when none is compatible
PyVer_require_checked(module, reqs, caller) ==
    With(list_extend(IF module \in DOMAIN PyVer__require
                     THEN PyVer__require[module] ELSE <<>>,
                     reqs, caller, 1), LAMBDA r :
        IF /\ r.exc = "none"
           /\ module \in DOMAIN PyVer__use
           /\ \A i \in 1..Len(r.lst) : ~is_compatible(r.lst[i], PyVer__use[module])
        THEN [exc |-> "VesionMismatchException", require |-> PyVer__require]
        ELSE [exc |-> r.exc, require |-> DictSet(PyVer__require, module, r.lst)])

\* PyVer.require(module, *reqs) called from the module caller: the exception
\* raised and self.__require afterwards
PyVer_require(module, reqs, caller) ==
    With(list_extend(IF module \in DOMAIN PyVer__require
                     THEN PyVer__require[module] ELSE <<>>,
                     reqs, caller, 1), LAMBDA r :
        [exc |-> r.exc, require |-> DictSet(PyVer__require, module, r.lst)])

\* the number of Require objects held by self.__require
RECURSIVE ReqCount(_)
ReqCount(d) ==
    IF DOMAIN d = {} THEN 0
    ELSE LET m == CHOOSE k \in DOMAIN d : TRUE
         IN  Len(d[m]) + ReqCount([k \in DOMAIN d \ {m} |-> d[k]])

\* _PYVER.require(module, r1, ..., rn) called directly by the module caller
require_method(module, reqs, caller) ==
    /\ running
    /\ ReqCount(PyVer__require) + Len(reqs) <= MaxReqs
    /\ \E r \in {PyVer_require(module, [i \in 1..Len(reqs) |-> Str(reqs[i])], caller)} :
           /\ PyVer__require' = r.require
           /\ last' = [op |-> "PyVer.require", module |-> module, arg |-> reqs,
                       exc |-> r.exc]
    /\ UNCHANGED <<PyVer__use, PyVer__repos, fs, running, probe, threads>>

\* require(module, *versions), the public function: the tuple versions is
\* handed on as one argument, and the caller seen is this library
require(module, versions) ==
    /\ running
    /\ \E r \in {PyVer_require(module, <<Tuple(versions)>>, "pyver.lib")} :
           /\ PyVer__require' = r.require
           /\ last' = [op |-> "require", module |-> module, arg |-> versions,
                       exc |-> r.exc]
    /\ UNCHANGED <<PyVer__use, PyVer__repos, fs, running, probe, threads>>

\* a variant of overlay that adds the path at the end of the search order
PyVer_overlay_append(path) ==
    IF startswith(path, <<"/">>) THEN Append(PyVer__repos, path) ELSE PyVer__repos

\* PyVer.overlay(path): self.__repos afterwards
PyVer_overlay(path) ==
    IF startswith(path, <<"/">>) THEN <<path>> \o PyVer__repos ELSE PyVer__repos

\* overlay(path), the public function
overlay(path) ==
    /\ running
    /\ Len(PyVer_overlay(path)) <= MaxRepos
    /\ PyVer__repos' = PyVer_overlay(path)
    /\ last' = [op |-> "overlay", module |-> <<>>, arg |-> path, exc |-> "none"]
    /\ UNCHANGED <<PyVer__use, PyVer__require, fs, running, probe, threads>>

\* a variant of shutil.rmtree that follows the links below path and removes
\* the directories they point to
shutil_rmtree_follow(path) ==
    LET below(p) == p = path \/ startswith(p, path \o <<"/">>)
    IN  [dirs  |-> {d \in fs.dirs :
                       /\ ~below(d)
                       /\ \A p \in DOMAIN fs.links : below(p) => fs.links[p] /= d},
         links |-> [p \in {q \in DOMAIN fs.links : ~below(q)} |-> fs.links[p]]]

\* shutil.rmtree(path): the directory, the directories below it and the
\* links below it are removed; a link is removed, never followed
shutil_rmtree(path) ==
    LET below(p) == p = path \/ startswith(p, path \o <<"/">>)
        kept     == {p \in DOMAIN fs.links : ~below(p)}
    IN  [dirs  |-> {d \in fs.dirs : ~below(d)},
         links |-> [p \in kept |-> fs.links[p]]]

\* PyVer.shutdown, run by atexit when the interpreter exits
shutdown ==
    /\ running
    /\ fs' = shutil_rmtree(LocalDir)
    /\ running' = FALSE
    /\ last' = [op |-> "shutdown", module |-> <<>>, arg |-> <<>>, exc |-> "none"]
    /\ UNCHANGED <<PyVer__use, PyVer__require, PyVer__repos, probe, threads>>

Next ==
    \/ \E module \in Modules, version \in UseVersions : use(module, version)
    \/ \E module \in Modules, reqs \in RequireArgs, caller \in Callers :
           require_method(module, reqs, caller)
    \/ \E module \in Modules, versions \in PublicRequireArgs : require(module, versions)
    \/ \E path \in OverlayPaths : overlay(path)
    \/ shutdown

Spec == Init /\ [][Next]_vars

\* ------------------------------------------------------------------------
\* Requirement semantics on their own: a requirement string and a candidate
\* version string are drawn, parsed, and the requirement is evaluated
\* ------------------------------------------------------------------------

Operators == TwoCharOps \cup OneCharOps

VerComponents == (0..MaxVer) \cup {BigVer}

VerTuples == {<<a, b, c>> : a \in VerComponents, b \in VerComponents, c \in VerComponents}

CompatInit ==
    /\ \E env \in PyverPaths : PyVer__init__(env)
    /\ running = TRUE
    /\ last = NoCall
    /\ \E op \in Operators, b \in VerTuples, c \in VerTuples :
           probe = [state |-> "drawn", op |-> op, bound |-> b, candidate |-> c,
                    reqstr |-> op \o VerStr(b), verstr |-> VerStr(c)]
    /\ threads = NoThreads

\* req = Require(reqstr, caller); req.is_compatible(Version(verstr))
compat_check ==
    /\ probe.state = "drawn"
    /\ LET req == Require(Str(probe.reqstr), "app")
           ver == Version(Str(probe.verstr))
       IN  probe' = [state |-> "checked", op |-> probe.op, bound |-> probe.bound,
                     candidate |-> probe.candidate, reqstr |-> probe.reqstr,
                     verstr |-> probe.verstr,
                     result |-> is_compatible(req, ver)]
    /\ UNCHANGED <<PyVer__use, PyVer__require, PyVer__repos, fs, running, last, threads>>

CompatNext == compat_check

SpecCompat == CompatInit /\ [][CompatNext]_vars

\* ------------------------------------------------------------------------
\* Parsing on its own: a requirement string, or a version string made of
\* dot-separated fields, is drawn and handed to the constructor
\* ------------------------------------------------------------------------

\* the characters of the requirement strings drawn
ReqAlphabet == {">", "<", "=", "!", "1", ".", "x"}

\* the requirement strings drawn: every string up to MaxStr characters
ReqTexts == UNION {[1..n -> ReqAlphabet] : n \in 0..MaxStr}

\* the fields a version string is made of: the text of the field and, when
\* the text is an integer, its value
IntFields == {[text |-> Decimal(n), int |-> TRUE, val |-> n] : n \in VerComponents}

OtherFields ==
    {[text |-> t, int |-> FALSE, val |-> 0] : t \in {<<"x">>, <<>>, <<"1", "x">>}}

Fields == IntFields \cup OtherFields

FieldLists == UNION {[1..n -> Fields] : n \in 1..MaxParts}

\* ".".join(the texts of the fields)
RECURSIVE join_fields(_)
join_fields(fields) ==
    IF Len(fields) = 1 THEN fields[1].text
    ELSE fields[1].text \o <<".">> \o join_fields(Tail(fields))

ParseInit ==
    /\ \E env \in PyverPaths : PyVer__init__(env)
    /\ running = TRUE
    /\ last = NoCall
    /\ \/ \E s \in ReqTexts : probe = [state |-> "reqstr", text |-> s]
       \/ \E f \in FieldLists :
              probe = [state |-> "verstr", fields |-> f, text |-> join_fields(f)]
    /\ threads = NoThreads

\* Require(reqstr, caller)
parse_require ==
    /\ probe.state = "reqstr"
    /\ probe' = [state |-> "required", text |-> probe.text,
                 result |-> Require(Str(probe.text), "app")]
    /\ UNCHANGED <<PyVer__use, PyVer__require, PyVer__repos, fs, running, last, threads>>

\* Version(ver_str)
parse_version ==
    /\ probe.state = "verstr"
    /\ probe' = [state |-> "versioned", fields |-> probe.fields, text |-> probe.text,
                 result |-> Version(Str(probe.text))]
    /\ UNCHANGED <<PyVer__use, PyVer__require, PyVer__repos, fs, running, last, threads>>

ParseNext == parse_require \/ parse_version

SpecParse == ParseInit /\ [][ParseNext]_vars

\* ------------------------------------------------------------------------
\* Threads: each thread makes one call of use; PyVer takes no lock, so the
\* calls interleave between the reads and writes of self.__use and of the
\* staging directory
\* ------------------------------------------------------------------------

Threads == {"t1", "t2"}

\* the identity of the Version object the thread constructs: self.__use is
\* empty when the threads start and each thread constructs one object
ThreadObjectId(t) == IF t = "t1" THEN 1 ELSE 2

\* the local variable ver before Version(version) has returned
NoVersion == New([exc |-> "none", str |-> <<>>, tuple |-> <<0, 0, 0>>], 0)

ThreadInit ==
    /\ \E env \in PyverPaths : PyVer__init__(env)
    /\ running = TRUE
    /\ last = NoCall
    /\ probe = NoProbe
    /\ \E calls \in [Threads -> Modules \X UseVersions] :
           threads = [t \in Threads |->
                         [pc |-> "call", module |-> calls[t][1], arg |-> calls[t][2],
                          ver |-> NoVersion, path |-> <<>>, exc |-> "none"]]

\* the thread's call has ended with exc
Done(t, exc) == [threads EXCEPT ![t].pc = "done", ![t].exc = exc]

\* PyVer.use up to the try: ver = Version(version) and
\* self.check_requires(module, ver), which read self.__require only
use_check(t) ==
    /\ threads[t].pc = "call"
    /\ \E v \in {Version(Str(threads[t].arg))} :
           IF v.exc /= "none" THEN threads' = Done(t, v.exc)
           ELSE \E chk \in {check_requires(threads[t].module, New(v, ThreadObjectId(t)))} :
                    IF chk /= "none" THEN threads' = Done(t, chk)
                    ELSE threads' = [threads EXCEPT ![t].pc = "lookup",
                                                    ![t].ver = New(v, ThreadObjectId(t))]
    /\ UNCHANGED <<PyVer__use, PyVer__require, PyVer__repos, fs, running, last, probe>>

\* loaded_ver = self.__use[module] and the comparison with ver, or the
\* KeyError that leads into __link_module
use_lookup(t) ==
    /\ threads[t].pc = "lookup"
    /\ threads' =
          IF threads[t].module \in DOMAIN PyVer__use
          THEN IF Version_ne(PyVer__use[threads[t].module], threads[t].ver)
               THEN Done(t, "VesionMismatchException")
               ELSE Done(t, "none")
          ELSE [threads EXCEPT ![t].pc = "search"]
    /\ UNCHANGED <<PyVer__use, PyVer__require, PyVer__repos, fs, running, last, probe>>

\* the loop of __link_module up to the os.path.exists that succeeds
link_search(t) ==
    /\ threads[t].pc = "search"
    /\ \E i \in {find_repos(threads[t].module, threads[t].ver, 1)} :
           threads' =
              IF i = 0 THEN Done(t, "VersionNotFoundException")
              ELSE [threads EXCEPT
                       ![t].pc = "symlink",
                       ![t].path = path_join(PyVer__repos[i], threads[t].module,
                                             threads[t].ver.str)]
    /\ UNCHANGED <<PyVer__use, PyVer__require, PyVer__repos, fs, running, last, probe>>

\* os.symlink(path, os.path.join(self.__local, module))
link_symlink(t) ==
    /\ threads[t].pc = "symlink"
    /\ \E lnk \in {os_symlink(threads[t].path, path_join2(LocalDir, threads[t].module))} :
           IF lnk.exc /= "none"
           THEN threads' = Done(t, lnk.exc) /\ fs' = fs
           ELSE threads' = [threads EXCEPT ![t].pc = "record"] /\ fs' = lnk.fs
    /\ UNCHANGED <<PyVer__use, PyVer__require, PyVer__repos, running, last, probe>>

\* self.__use[module] = version; return
link_record(t) ==
    /\ threads[t].pc = "record"
    /\ PyVer__use' = DictSet(PyVer__use, threads[t].module, threads[t].ver)
    /\ threads' = Done(t, "none")
    /\ UNCHANGED <<PyVer__require, PyVer__repos, fs, running, last, probe>>

\* overlay(path) by the main thread before the threads are started
overlay_before_start(path) ==
    /\ \A t \in Threads : threads[t].pc = "call"
    /\ overlay(path)

ThreadNext ==
    \/ \E path \in OverlayPaths : overlay_before_start(path)
    \/ \E t \in Threads : use_check(t)
    \/ \E t \in Threads : use_lookup(t)
    \/ \E t \in Threads : link_search(t)
    \/ \E t \in Threads : link_symlink(t)
    \/ \E t \in Threads : link_record(t)

SpecThreads == ThreadInit /\ [][ThreadNext]_vars

\* ------------------------------------------------------------------------
\* Properties
\* ------------------------------------------------------------------------

\* the path of the link of a module in the staging directory
StagingLink(m) == path_join2(LocalDir, m)

\* the step is the call use(m, s)
IsUse(m, s) == last'.op = "use" /\ last'.module = m /\ last'.arg = s

\* s is a version string that parses
Parses(s) == Version(Str(s)).exc = "none"

\* the step leaves the linked versions and the file system as they were
NothingLinked == PyVer__use' = PyVer__use /\ fs' = fs

\* some repository of the search order holds module/s
InSomeRepos(m, s) ==
    \E i \in 1..Len(PyVer__repos) : path_join(PyVer__repos[i], m, s) \in fs.dirs

\* C1: while the process runs, a module that has a linked version keeps
\* exactly that Version object and exactly that link through every call, and
\* a use call for a module that is already linked changes neither the
\* linked versions nor the staging directory.
C1_OneVersionPerModule ==
    [][running' =>
        /\ \A m \in DOMAIN PyVer__use :
              /\ m \in DOMAIN PyVer__use'
              /\ PyVer__use'[m] = PyVer__use[m]
              /\ StagingLink(m) \in DOMAIN fs.links
              /\ StagingLink(m) \in DOMAIN fs'.links
              /\ fs'.links[StagingLink(m)] = fs.links[StagingLink(m)]
        /\ (last'.op = "use" /\ last'.module \in DOMAIN PyVer__use) => NothingLinked
      ]_vars

\* C1 witness: a use call was made for a module that was already linked
C1_Witness ==
    /\ last.op = "use"
    /\ last.exc = "VesionMismatchException"
    /\ last.module \in DOMAIN PyVer__use
    /\ Parses(last.arg)
    /\ check_requires(last.module, Version(Str(last.arg))) = "none"

\* C2: a use call for a module already linked, with a string that parses to
\* the linked tuple and passes the requirement check, returns without an
\* exception and changes neither the linked versions nor the file system.
C2_UseIdempotent ==
    [][\A m \in Modules, s \in UseVersions :
          ( /\ IsUse(m, s)
            /\ m \in DOMAIN PyVer__use
            /\ Parses(s)
            /\ Version(Str(s)).tuple = PyVer__use[m].tuple
            /\ check_requires(m, Version(Str(s))) = "none" )
          => (last'.exc = "none" /\ NothingLinked)
      ]_vars

\* C3: when the module has a non-empty requirement list, a use call with a
\* version compatible with none of them raises the mismatch and links
\* nothing, and a use call for an unlinked module with a version compatible
\* with at least one of them gets past the requirement check: it links, or
\* finds no directory.
C3_AnyOfRequirement ==
    [][\A m \in Modules, s \in UseVersions :
          ( /\ IsUse(m, s)
            /\ Parses(s)
            /\ m \in DOMAIN PyVer__require
            /\ PyVer__require[m] /= <<>> )
          => LET some == \E i \in 1..Len(PyVer__require[m]) :
                            is_compatible(PyVer__require[m][i], Version(Str(s)))
             IN  /\ ~some => (last'.exc = "VesionMismatchException" /\ NothingLinked)
                 /\ (some /\ m \notin DOMAIN PyVer__use) =>
                        /\ last'.exc \in {"none", "VersionNotFoundException"}
                        /\ last'.exc = "none" <=> InSomeRepos(m, s)
      ]_vars

\* C3 witness: a version was linked that one recorded requirement accepts
\* and another one rejects
C3_Witness ==
    /\ last.op = "use"
    /\ last.exc = "none"
    /\ last.module \in DOMAIN PyVer__require
    /\ \E i, j \in 1..Len(PyVer__require[last.module]) :
          /\ is_compatible(PyVer__require[last.module][i], PyVer__use[last.module])
          /\ ~is_compatible(PyVer__require[last.module][j], PyVer__use[last.module])

\* C4: a use call for an unlinked module whose requirement list is absent
\* or empty gets past the requirement check: it links, or finds no directory.
C4_EmptyRequirementsPass ==
    [][\A m \in Modules, s \in UseVersions :
          ( /\ IsUse(m, s)
            /\ Parses(s)
            /\ m \notin DOMAIN PyVer__use
            /\ (m \notin DOMAIN PyVer__require \/ PyVer__require[m] = <<>>) )
          => /\ last'.exc \in {"none", "VersionNotFoundException"}
             /\ last'.exc = "none" <=> InSomeRepos(m, s)
      ]_vars

\* C5: a call of the public require with one or more strings, all of them
\* well-formed, returns without
\* an exception and appends one Require per string, in argument order, to
\* the end of the list of the module.
C5_PublicRequireAppends ==
    [][\A m \in Modules, a \in PublicRequireArgs :
          ( /\ last'.op = "require" /\ last'.module = m /\ last'.arg = a
            /\ a /= <<>>
            /\ \A i \in 1..Len(a) : Require(Str(a[i]), "pyver.lib").exc = "none" )
          => LET old == IF m \in DOMAIN PyVer__require
                        THEN PyVer__require[m] ELSE <<>>
             IN  /\ last'.exc = "none"
                 /\ m \in DOMAIN PyVer__require'
                 /\ Len(PyVer__require'[m]) = Len(old) + Len(a)
                 /\ SubSeq(PyVer__require'[m], 1, Len(old)) = old
                 /\ \A i \in 1..Len(a) :
                        PyVer__require'[m][Len(old) + i].reqstr = a[i]
      ]_vars

\* C6: a use call for a module already linked, with a string that parses to
\* another tuple than the linked one, raises the mismatch and leaves the
\* linked versions, the file system and the requirements as they were.
C6_ConflictKeepsState ==
    [][\A m \in Modules, s \in UseVersions :
          ( /\ IsUse(m, s)
            /\ m \in DOMAIN PyVer__use
            /\ Parses(s)
            /\ Version(Str(s)).tuple /= PyVer__use[m].tuple )
          => /\ last'.exc = "VesionMismatchException"
             /\ NothingLinked
             /\ PyVer__require' = PyVer__require
      ]_vars

\* C6 witness: a use call asked for another tuple than the linked one, and
\* the requirements of the module accept that tuple
C6_Witness ==
    /\ last.op = "use"
    /\ last.module \in DOMAIN PyVer__use
    /\ Parses(last.arg)
    /\ Version(Str(last.arg)).tuple /= PyVer__use[last.module].tuple
    /\ check_requires(last.module, Version(Str(last.arg))) = "none"
    /\ last.exc = "VesionMismatchException"

\* C7: every use call either returns having linked the module (the link is
\* made in the staging directory and the version recorded, for a module that
\* had neither) or raises and leaves the linked versions, the requirements,
\* the repositories and the file system as they were; a use call for an
\* unlinked module that passes the requirement check and finds the directory
\* in no repository raises VersionNotFoundException.
C7_UseAllOrNothing ==
    [][\A m \in Modules, s \in UseVersions :
          IsUse(m, s) =>
            /\ \/ /\ last'.exc = "none"
                  /\ m \notin DOMAIN PyVer__use
                  /\ StagingLink(m) \notin DOMAIN fs.links
                  /\ m \in DOMAIN PyVer__use'
                  /\ PyVer__use'[m].str = s
                  /\ StagingLink(m) \in DOMAIN fs'.links
                  /\ \A k \in DOMAIN PyVer__use : PyVer__use'[k] = PyVer__use[k]
                  /\ PyVer__require' = PyVer__require
                  /\ PyVer__repos' = PyVer__repos
               \/ /\ last'.exc /= "none"
                  /\ NothingLinked
                  /\ PyVer__require' = PyVer__require
                  /\ PyVer__repos' = PyVer__repos
            /\ ( /\ m \notin DOMAIN PyVer__use
                 /\ Parses(s)
                 /\ check_requires(m, Version(Str(s))) = "none"
                 /\ ~InSomeRepos(m, s) )
               => last'.exc = "VersionNotFoundException"
      ]_vars

\* C7 witness: a use call for an unlinked module found no directory
C7_Witness ==
    /\ last.op = "use"
    /\ last.exc = "VersionNotFoundException"
    /\ last.module \notin DOMAIN PyVer__use
    /\ StagingLink(last.module) \notin DOMAIN fs.links

\* C8: when a use call links a module, the target of the link is the
\* directory module/version of a repository that holds it, and no repository
\* earlier in the search order holds module/version.
C8_FirstMatchWins ==
    [][\A m \in Modules, s \in UseVersions :
          (IsUse(m, s) /\ last'.exc = "none") =>
            /\ StagingLink(m) \in DOMAIN fs'.links
            /\ \E i \in 1..Len(PyVer__repos) :
                  /\ fs'.links[StagingLink(m)] = path_join(PyVer__repos[i], m, s)
                  /\ path_join(PyVer__repos[i], m, s) \in fs.dirs
                  /\ \A j \in 1..(i - 1) :
                        path_join(PyVer__repos[j], m, s) \notin fs.dirs
      ]_vars

\* C8 witness: a module was linked from a repository although a later
\* repository, another directory, holds the same module/version
C8_Witness ==
    /\ last.op = "use"
    /\ last.exc = "none"
    /\ \E i, j \in 1..Len(PyVer__repos) :
          /\ i < j
          /\ PyVer__repos[i] /= PyVer__repos[j]
          /\ fs.links[StagingLink(last.module)]
                = path_join(PyVer__repos[i], last.module, last.arg)
          /\ path_join(PyVer__repos[j], last.module, last.arg) \in fs.dirs

\* a path that begins with a slash
IsAbsolute(p) == p /= <<>> /\ p[1] = "/"

\* C9: overlay raises nothing; with an absolute path it puts the path first
\* and keeps the earlier repositories in their order behind it, with any
\* other path it leaves the repositories as they were.  A use call made
\* right after the overlay of an absolute path, for an unlinked module that
\* passes the requirement check and has its directory under that path, links
\* the directory under that path.
C9_OverlayPrepends ==
    [][/\ last'.op = "overlay" =>
            /\ last'.exc = "none"
            /\ IsAbsolute(last'.arg) =>
                  /\ Len(PyVer__repos') = Len(PyVer__repos) + 1
                  /\ PyVer__repos'[1] = last'.arg
                  /\ \A i \in 1..Len(PyVer__repos) :
                        PyVer__repos'[i + 1] = PyVer__repos[i]
            /\ ~IsAbsolute(last'.arg) => PyVer__repos' = PyVer__repos
       /\ \A m \in Modules, s \in UseVersions :
            ( /\ last.op = "overlay"
              /\ IsAbsolute(last.arg)
              /\ IsUse(m, s)
              /\ m \notin DOMAIN PyVer__use
              /\ Parses(s)
              /\ check_requires(m, Version(Str(s))) = "none"
              /\ path_join(last.arg, m, s) \in fs.dirs )
            => /\ last'.exc = "none"
               /\ fs'.links[StagingLink(m)] = path_join(last.arg, m, s)
      ]_vars

\* C9 witness: a module was linked to the copy under the overlay path while
\* a repository configured earlier holds the same module/version
C9_Witness ==
    /\ last.op = "use"
    /\ last.exc = "none"
    /\ PyVer__repos[1] = Custom
    /\ fs.links[StagingLink(last.module)] = path_join(Custom, last.module, last.arg)
    /\ \E j \in 2..Len(PyVer__repos) :
          /\ PyVer__repos[j] /= Custom
          /\ path_join(PyVer__repos[j], last.module, last.arg) \in fs.dirs

\* the rank of a version tuple in the lexicographic order of the tuples with
\* components up to BigVer
Rank(t) == (t[1] * (BigVer + 1) + t[2]) * (BigVer + 1) + t[3]

\* C10: is_compatible of the requirement "op b" on the candidate c is true
\* exactly when c op b holds in the lexicographic order of the tuples.
C10_RequirementSemantics ==
    probe.state = "checked" =>
        LET c == Rank(probe.candidate)
            b == Rank(probe.bound)
        IN  probe.result <=>
              CASE probe.op = <<"=", "=">> -> c = b
                [] probe.op = <<"!", "=">> -> c /= b
                [] probe.op = <<"<", "=">> -> c <= b
                [] probe.op = <<">", "=">> -> c >= b
                [] probe.op = <<"<">>      -> c < b
                [] probe.op = <<">">>      -> c > b

\* C10 witness: a requirement "<= b" was evaluated to true on a candidate
\* whose minor component, of one digit, is below the bound's, of two digits,
\* and whose patch is above the bound's
C10_Witness ==
    /\ probe.state = "checked"
    /\ probe.op = <<"<", "=">>
    /\ probe.result
    /\ probe.candidate[1] = probe.bound[1]
    /\ probe.candidate[2] < 10
    /\ probe.bound[2] >= 10
    /\ probe.candidate[3] > probe.bound[3]

\* the operator a requirement string begins with: one of the two-character
\* operators when its first two characters are one, else < or > when its
\* first character is one, else none
PrefixOp(s) ==
    IF Len(s) >= 2 /\ <<s[1], s[2]>> \in TwoCharOps THEN <<s[1], s[2]>>
    ELSE IF Len(s) >= 1 /\ s[1] \in {"<", ">"} THEN <<s[1]>>
    ELSE <<>>

\* the string behind the first n characters
Behind(s, n) == [i \in 1..(Len(s) - n) |-> s[n + i]]

\* C11: constructing a Require from a string that begins with none of the
\* six operators, the empty string included, raises InvalidRequireString;
\* from a string that begins with one, it raises InvalidVersionNumber when
\* the rest is no version, and else yields that operator and the version of
\* the rest.
C11_OperatorPrefix ==
    probe.state = "required" =>
        IF PrefixOp(probe.text) = <<>>
        THEN probe.result.exc = "InvalidRequireString"
        ELSE IF ~Parses(Behind(probe.text, Len(PrefixOp(probe.text))))
        THEN probe.result.exc = "InvalidVersionNumber"
        ELSE /\ probe.result.exc = "none"
             /\ probe.result.op = PrefixOp(probe.text)
             /\ probe.result.version.tuple
                   = Version(Str(Behind(probe.text, Len(PrefixOp(probe.text))))).tuple

\* the values of up to three integer fields, 0 for a field that is absent
FieldTuple(f) == [i \in 1..3 |-> IF i <= Len(f) THEN f[i].val ELSE 0]

\* C12: a version string of one to three fields parses to the tuple of the
\* values of its fields, with 0 for each missing trailing field, when every
\* field is an integer, and raises InvalidVersionNumber when a field is not.
C12_VersionParsing ==
    (probe.state = "versioned" /\ Len(probe.fields) <= 3) =>
        IF \A i \in 1..Len(probe.fields) : probe.fields[i].int
        THEN /\ probe.result.exc = "none"
             /\ probe.result.tuple = FieldTuple(probe.fields)
             /\ probe.result.str = probe.text
        ELSE probe.result.exc = "InvalidVersionNumber"

\* C12 witness: a string of two integer fields, the second of two digits,
\* was parsed and the patch component was set to 0
C12_Witness ==
    /\ probe.state = "versioned"
    /\ Len(probe.fields) = 2
    /\ probe.fields[1].int
    /\ probe.fields[2].int
    /\ probe.fields[2].val >= 10
    /\ probe.result.exc = "none"
    /\ probe.result.tuple[3] = 0

\* C13 as stated: a version string of more than three fields, the first
\* three of them integers, parses to the tuple of the first three.
C13_TruncatesExtraFields ==
    ( /\ probe.state = "versioned"
      /\ Len(probe.fields) > 3
      /\ \A i \in 1..3 : probe.fields[i].int )
    => /\ probe.result.exc = "none"
       /\ probe.result.tuple = FieldTuple(probe.fields)

\* C13 amended: a version string of more than three fields raises
\* InvalidVersionNumber, whatever its fields are: the third part of the
\* split holds everything behind the second dot.
C13_ExtraFieldsRejected ==
    (probe.state = "versioned" /\ Len(probe.fields) > 3) =>
        probe.result.exc = "InvalidVersionNumber"

\* C13 witness: a string of four integer fields was rejected
C13_Witness ==
    /\ probe.state = "versioned"
    /\ Len(probe.fields) = 4
    /\ \A i \in 1..4 : probe.fields[i].int
    /\ probe.result.exc = "InvalidVersionNumber"

\* the path is the staging directory or lies below it
InStaging(p) == p = LocalDir \/ startswith(p, LocalDir \o <<"/">>)

\* C14: shutdown removes the staging directory and every link in it, and
\* nothing else: every directory outside the staging directory, the targets
\* of the links among them, exists afterwards as before.
C14_ShutdownKeepsTargets ==
    [][(running /\ ~running') =>
          /\ \A p \in fs'.dirs \cup DOMAIN fs'.links : ~InStaging(p)
          /\ \A m \in DOMAIN PyVer__use :
                /\ StagingLink(m) \in DOMAIN fs.links
                /\ StagingLink(m) \notin DOMAIN fs'.links
                /\ fs.links[StagingLink(m)] \in fs'.dirs
          /\ fs'.dirs = {d \in fs.dirs : ~InStaging(d)}
          /\ RepoDirs \subseteq fs'.dirs
      ]_vars

\* C14 witness: shutdown has run after both modules were linked
C14_Witness ==
    /\ ~running
    /\ last.op = "shutdown"
    /\ DOMAIN PyVer__use = Modules
    /\ LocalDir \notin fs.dirs
    /\ DOMAIN fs.links = {}

\* the sequence a begins the sequence b
IsPrefix(a, b) == Len(a) <= Len(b) /\ SubSeq(b, 1, Len(a)) = a

\* some requirement is recorded for the module and none accepts the version
\* the module is linked at
LinkedIncompatible(m) ==
    /\ m \in DOMAIN PyVer__use
    /\ m \in DOMAIN PyVer__require
    /\ PyVer__require[m] /= <<>>
    /\ \A i \in 1..Len(PyVer__require[m]) :
           ~is_compatible(PyVer__require[m][i], PyVer__use[m])

\* C16: no step removes a module from the requirements or removes or changes
\* a recorded requirement; use, overlay and shutdown leave the requirements
\* as they were; a require call leaves the linked versions and the file
\* system as they were, and PyVer.require with well-formed strings returns
\* and appends them whatever version the module is linked at.
C16_RequirementsOnlyGrow ==
    [][/\ \A m \in DOMAIN PyVer__require :
             /\ m \in DOMAIN PyVer__require'
             /\ IsPrefix(PyVer__require[m], PyVer__require'[m])
       /\ last'.op \in {"use", "overlay", "shutdown"} => PyVer__require' = PyVer__require
       /\ last'.op \in {"require", "PyVer.require"} => NothingLinked
       /\ \A m \in Modules, a \in RequireArgs :
             ( /\ last'.op = "PyVer.require" /\ last'.module = m /\ last'.arg = a
               /\ \A i \in 1..Len(a) : Require(Str(a[i]), "app").exc = "none" )
             => /\ last'.exc = "none"
                /\ m \in DOMAIN PyVer__require'
                /\ Len(PyVer__require'[m])
                      = Len(a) + (IF m \in DOMAIN PyVer__require
                                  THEN Len(PyVer__require[m]) ELSE 0)
                /\ \A i \in 1..Len(a) :
                       PyVer__require'[m][Len(PyVer__require'[m]) - Len(a) + i].reqstr
                          = a[i]
      ]_vars

\* C16 witness: PyVer.require returned for a linked module, and the strings
\* of this call are all its requirements and none accepts the linked version
C16_Witness ==
    /\ last.op = "PyVer.require"
    /\ last.exc = "none"
    /\ last.arg /= <<>>
    /\ LinkedIncompatible(last.module)
    /\ Len(PyVer__require[last.module]) = Len(last.arg)

\* C17: until shutdown, the links of the staging directory are those of the
\* linked modules: one link per linked module, named as the module, pointing
\* to the existing directory module/version of a repository, version being
\* the string of the version recorded; and nothing else is in the directory.
C17_StagingMatchesActive ==
    running =>
        /\ LocalDir \in fs.dirs
        /\ \A p \in DOMAIN fs.links : \E m \in DOMAIN PyVer__use : p = StagingLink(m)
        /\ \A d \in fs.dirs : InStaging(d) => d = LocalDir
        /\ \A m \in DOMAIN PyVer__use :
              /\ StagingLink(m) \in DOMAIN fs.links
              /\ fs.links[StagingLink(m)] \in fs.dirs
              /\ \E i \in 1..Len(PyVer__repos) :
                     fs.links[StagingLink(m)]
                        = path_join(PyVer__repos[i], m, PyVer__use[m].str)

\* C17 witness: both modules are linked, from different repositories
C17_Witness ==
    /\ running
    /\ DOMAIN PyVer__use = Modules
    /\ \E i, j \in 1..Len(PyVer__repos) :
          /\ PyVer__repos[i] /= PyVer__repos[j]
          /\ fs.links[StagingLink(<<"x">>)]
                = path_join(PyVer__repos[i], <<"x">>, PyVer__use[<<"x">>].str)
          /\ fs.links[StagingLink(<<"y">>)]
                = path_join(PyVer__repos[j], <<"y">>, PyVer__use[<<"y">>].str)

\* C18: a call of PyVer.require that raises InvalidRequireString or
\* InvalidVersionNumber leaves the requirements as they were.
C18_FailedRequireKeepsRequirements ==
    [][( /\ last'.op = "PyVer.require"
         /\ last'.exc \in {"InvalidRequireString", "InvalidVersionNumber"} )
       => PyVer__require' = PyVer__require
      ]_vars

\* C19: a use call for an unlinked module that parses and passes the
\* requirement check links the directory named by the string as given when a
\* repository holds it, and raises VersionNotFoundException when none does,
\* whatever directories named by other strings of the same tuple exist; and
\* a use call that the requirement check rejects is rejected for every
\* string of the same tuple.
C19_LookupByLiteralString ==
    [][\A m \in Modules, s \in UseVersions :
          (IsUse(m, s) /\ Parses(s) /\ m \notin DOMAIN PyVer__use) =>
             IF check_requires(m, Version(Str(s))) /= "none"
             THEN /\ last'.exc = "VesionMismatchException"
                  /\ \A s2 \in UseVersions :
                        ( /\ Parses(s2)
                          /\ Version(Str(s2)).tuple = Version(Str(s)).tuple )
                        => check_requires(m, Version(Str(s2))) /= "none"
             ELSE IF InSomeRepos(m, s)
             THEN /\ last'.exc = "none"
                  /\ \E i \in 1..Len(PyVer__repos) :
                         fs'.links[StagingLink(m)] = path_join(PyVer__repos[i], m, s)
                  /\ PyVer__use'[m].str = s
             ELSE /\ last'.exc = "VersionNotFoundException"
                  /\ NothingLinked
      ]_vars

\* C19 witness: use of "1.5" raised VersionNotFoundException although a
\* repository holds the directory 1.5.0 of the module, a string of the same
\* tuple
C19_Witness ==
    /\ last.op = "use"
    /\ last.arg = <<"1", ".", "5">>
    /\ last.exc = "VersionNotFoundException"
    /\ InSomeRepos(last.module, <<"1", ".", "5", ".", "0">>)
    /\ Version(Str(last.arg)).tuple = Version(Str(<<"1", ".", "5", ".", "0">>)).tuple

\* the two threads call use for the same module with strings of different
\* tuples, each of which a repository holds, and no requirement rejects
ConcurrentUse(t, u) ==
    /\ t /= u
    /\ threads[t].module = threads[u].module
    /\ Parses(threads[t].arg)
    /\ Parses(threads[u].arg)
    /\ Version(Str(threads[t].arg)).tuple /= Version(Str(threads[u].arg)).tuple
    /\ InSomeRepos(threads[t].module, threads[t].arg)
    /\ InSomeRepos(threads[u].module, threads[u].arg)
    /\ check_requires(threads[t].module, Version(Str(threads[t].arg))) = "none"
    /\ check_requires(threads[u].module, Version(Str(threads[u].arg))) = "none"

\* C15: when two threads call use for the same unlinked module with two
\* different versions that both exist, no call ends with another exception
\* than the mismatch, and once both have ended one has returned, the other
\* has raised the mismatch, and the link is that of the version recorded.
C15_ConcurrentUseAtomic ==
    \A t, u \in DOMAIN threads :
        ConcurrentUse(t, u) =>
            /\ threads[t].pc = "done"
                  => threads[t].exc \in {"none", "VesionMismatchException"}
            /\ (threads[t].pc = "done" /\ threads[u].pc = "done")
                  => /\ {threads[t].exc, threads[u].exc}
                           = {"none", "VesionMismatchException"}
                     /\ threads[t].module \in DOMAIN PyVer__use
                     /\ \E i \in 1..Len(PyVer__repos) :
                            fs.links[StagingLink(threads[t].module)]
                               = path_join(PyVer__repos[i], threads[t].module,
                                           PyVer__use[threads[t].module].str)

====
